---- MODULE Spec2Model ----
(***************************************************************************)
(* Model of the LMS repository: the User model over the MySQL schema of    *)
(* db-setup.js (users, courses, enrollments, posts, submissions,           *)
(* token_blacklist), the client AuthService (cookies, logout) and the      *)
(* route tree of AppRoutes with its FirstLoginCheck guard.                 *)
(***************************************************************************)
EXTENDS Integers, Sequences, FiniteSets, TLC

VARIABLES
    users,            \* users table: id -> row
    nextUserId,       \* AUTO_INCREMENT counter of users.id
    sqlStrict,        \* whether the MySQL server runs a strict sql_mode
    courses,          \* courses table: id -> row
    enrollments,      \* enrollments table: id -> row
    posts,            \* posts table: id -> row
    submissions,      \* submissions table: id -> row
    nextId,           \* AUTO_INCREMENT counters of the four tables above
    dbError,          \* error code of the last SQL statement, "" when it succeeded
    hashCall,         \* the row and the plain password of the last call that stored a hash
    cascaded,         \* rows of each table the last SQL statement removed by cascade
    cookies,          \* the browser's cookies 'token' and 'user'
    token_blacklist,  \* token_blacklist table, by its unique column token
    tokens,           \* the tokens the server has signed: token -> user id
    isLoading,        \* the auth context is still loading
    location,         \* window.location of the browser
    page,             \* the page component on screen
    loggedOut,        \* the logouts the client has carried out
    lastResponse,     \* the token and the status of the last authenticated request
    now,              \* Date.now()
    lastMeFetchTime,  \* AuthService: time of the last profile fetch
    pendingMeRequest, \* AuthService: whether a promise of a profile fetch is kept
    meInFlight,       \* the /auth/me requests in flight, by the token they carry
    call,             \* the last call of a client service and how it settled
    logoutTimer,      \* UserManagementPage: the setTimeout callbacks that wait to log out
    roleChange,       \* UserManagementPage: the last run of handleRoleChange
    dashboard,        \* DashboardPage: its state and the runs of fetchData
    requested,        \* the request a service method has sent last
    search            \* UserManagementPage: the filters, the debounce timers, the fetches

dbVars == <<users, nextUserId, sqlStrict, courses, enrollments, posts, submissions,
            nextId, dbError, hashCall, cascaded>>
schemaVars == <<courses, enrollments, posts, submissions, nextId>>
authVars == <<now, lastMeFetchTime, pendingMeRequest, meInFlight>>
pageVars == <<logoutTimer, roleChange, dashboard, requested, search>>
clientVars == <<cookies, token_blacklist, tokens, isLoading, location, page, loggedOut,
                lastResponse, authVars, call, pageVars>>

vars == <<dbVars, clientVars>>

(***************************************************************************)
(* Bounds of the model.                                                    *)
(***************************************************************************)
\* highest users.id the AUTO_INCREMENT counter hands out
MaxUserId == 2
\* highest id the AUTO_INCREMENT counters of courses and enrollments hand out
MaxCourseId == 1
MaxEnrollmentId == 2
\* highest id the AUTO_INCREMENT counters of posts and submissions hand out
MaxPostId == 1
MaxSubmissionId == 1
\* number of leading key bytes bcrypt's key schedule reads (72 in bcryptjs),
\* scaled down to keep the passwords of the model short
BcryptKeyLen == 2
\* passwords run up to one character past what bcrypt reads
MaxPasswordLen == BcryptKeyLen + 1

(***************************************************************************)
(* Column domains of the users table (db-setup.js).                        *)
(***************************************************************************)
Roles == {"student", "instructor", "admin"}
Statuses == {"active", "inactive", "suspended"}

\* A call that leaves an optional argument out.
NoArg == "undefined"

Emails == {"admin@uonbi.ac.ke", "ADMIN@uonbi.ac.ke", "kwame.njoroge@student.com"}

\* utf8mb4_unicode_ci compares VARCHAR values without regard to case, so the
\* UNIQUE index on users.email is keyed by the case-folded address.
CollationKey(email) ==
    IF email = "ADMIN@uonbi.ac.ke" THEN "admin@uonbi.ac.ke" ELSE email

(***************************************************************************)
(* bcrypt.  A password is a sequence of characters; bcrypt appends a NUL   *)
(* and its key schedule reads the result cyclically, BcryptKeyLen bytes    *)
(* in all.  The digest is taken to be injective in (cost, salt, key).      *)
(***************************************************************************)
Chars == {"a", "b"}
NUL == "NUL"
\* values of bcrypt's random salt
Salts == {"salt1", "salt2"}

PasswordsOfLen(n) == [1..n -> Chars]
Passwords == UNION {PasswordsOfLen(n) : n \in 0..MaxPasswordLen}

KeyStream(password) ==
    LET key == password \o <<NUL>>
    IN  [i \in 1..BcryptKeyLen |-> key[((i - 1) % Len(key)) + 1]]

BcryptHash(password, salt, rounds) ==
    [rounds |-> rounds, salt |-> salt, digest |-> KeyStream(password)]

BcryptCompare(password, hashed) ==
    BcryptHash(password, hashed.salt, hashed.rounds) = hashed

comparePassword(password, hashedPassword) == BcryptCompare(password, hashedPassword)

\* cost factor of User.create and User.updatePassword
HashRounds == 10
\* cost factor of the seed script (BCRYPT_SALT_ROUNDS unset)
SeedRounds == 12
\* stands for process.env.ADMIN_PASSWORD || "Admin@2026"
AdminPassword == <<"a", "b">>

(***************************************************************************)
(* MySQL column semantics.                                                 *)
(***************************************************************************)
\* An ENUM column takes a listed value as it is.  A value that is not
\* listed is an error under a strict sql_mode and is stored as the empty
\* string otherwise.
EnumAccepts(value, domain) == value \in domain \/ ~sqlStrict
EnumStored(value, domain) == IF value \in domain THEN value ELSE ""

EmailTaken(email) ==
    \E id \in DOMAIN users : CollationKey(users[id].email) = CollationKey(email)

InsertRow(table, id, row) ==
    [k \in DOMAIN table \cup {id} |-> IF k = id THEN row ELSE table[k]]

DeleteRows(table, ids) == [k \in DOMAIN table \ ids |-> table[k]]

UserRow(email, hashed, role, status) ==
    [email |-> email, password |-> hashed,
     role |-> EnumStored(role, Roles), status |-> EnumStored(status, Statuses),
     is_first_login |-> TRUE]

\* InsertUser on a table without the UNIQUE index on email
InsertUser_NoUniqueIndex(email, hashed, role, status) ==
    IF ~EnumAccepts(role, Roles) \/ ~EnumAccepts(status, Statuses)
    THEN /\ dbError' = "WARN_DATA_TRUNCATED"
         /\ UNCHANGED <<users, nextUserId>>
    ELSE /\ dbError' = IF EmailTaken(email) THEN "ER_DUP_ENTRY" ELSE ""
         /\ users' = InsertRow(users, nextUserId, UserRow(email, hashed, role, status))
         /\ nextUserId' = nextUserId + 1

\* INSERT INTO users: the statement fails on an ENUM error (strict mode) and
\* on a duplicate email; a duplicate-key failure still consumes the
\* AUTO_INCREMENT value.
InsertUser(email, hashed, role, status) ==
    IF ~EnumAccepts(role, Roles) \/ ~EnumAccepts(status, Statuses)
    THEN /\ dbError' = "WARN_DATA_TRUNCATED"
         /\ UNCHANGED <<users, nextUserId>>
    ELSE IF EmailTaken(email)
    THEN /\ dbError' = "ER_DUP_ENTRY"
         /\ nextUserId' = nextUserId + 1
         /\ UNCHANGED users
    ELSE /\ dbError' = ""
         /\ users' = InsertRow(users, nextUserId, UserRow(email, hashed, role, status))
         /\ nextUserId' = nextUserId + 1

\* UPDATE users SET <column> = ? WHERE id = ?, for an ENUM column
UpdateEnum(id, column, value, domain) ==
    IF ~EnumAccepts(value, domain)
    THEN /\ dbError' = "WARN_DATA_TRUNCATED"
         /\ UNCHANGED users
    ELSE /\ dbError' = ""
         /\ users' = [k \in DOMAIN users |->
                         IF k = id
                         THEN [users[k] EXCEPT ![column] = EnumStored(value, domain)]
                         ELSE users[k]]

(***************************************************************************)
(* The User model.                                                         *)
(***************************************************************************)
\* a statement that removes no row of the related tables
NoCascade == [courses |-> 0, enrollments |-> 0, posts |-> 0, submissions |-> 0]

DefaultRole(role) == IF role = NoArg THEN "user" ELSE role
DefaultStatus(status) == IF status = NoArg THEN "active" ELSE status

NoCall == [id |-> 0]

create(email, password, salt, role, status) ==
    /\ InsertUser(email, BcryptHash(password, salt, HashRounds),
                  DefaultRole(role), DefaultStatus(status))
    /\ hashCall' = IF nextUserId \in DOMAIN users'
                 THEN [id |-> nextUserId, password |-> password]
                 ELSE NoCall
    /\ cascaded' = NoCascade
    /\ UNCHANGED <<sqlStrict, schemaVars, clientVars>>

updateRole(id, role) ==
    /\ UpdateEnum(id, "role", role, Roles)
    /\ cascaded' = NoCascade
    /\ UNCHANGED <<nextUserId, sqlStrict, schemaVars, hashCall, clientVars>>

updateStatus(userId, status) ==
    /\ UpdateEnum(userId, "status", status, Statuses)
    /\ cascaded' = NoCascade
    /\ UNCHANGED <<nextUserId, sqlStrict, schemaVars, hashCall, clientVars>>

\* updatePassword with the WHERE clause lost
updatePassword_AllRows(id, password, salt) ==
    /\ users' = [k \in DOMAIN users |->
                    [users[k] EXCEPT !.password = BcryptHash(password, salt, HashRounds),
                                     !.is_first_login = FALSE]]
    /\ dbError' = ""
    /\ hashCall' = IF id \in DOMAIN users THEN [id |-> id, password |-> password] ELSE NoCall
    /\ cascaded' = NoCascade
    /\ UNCHANGED <<nextUserId, sqlStrict, schemaVars, clientVars>>

\* updatePassword that clears the flag and leaves the old hash in place
updatePassword_KeepsHash(id, password, salt) ==
    /\ users' = [k \in DOMAIN users |->
                    IF k = id THEN [users[k] EXCEPT !.is_first_login = FALSE] ELSE users[k]]
    /\ dbError' = ""
    /\ hashCall' = IF id \in DOMAIN users THEN [id |-> id, password |-> password] ELSE NoCall
    /\ cascaded' = NoCascade
    /\ UNCHANGED <<nextUserId, sqlStrict, schemaVars, clientVars>>

updatePassword(id, password, salt) ==
    /\ users' = [k \in DOMAIN users |->
                    IF k = id
                    THEN [users[k] EXCEPT !.password = BcryptHash(password, salt, HashRounds),
                                          !.is_first_login = FALSE]
                    ELSE users[k]]
    /\ dbError' = ""
    /\ hashCall' = IF id \in DOMAIN users THEN [id |-> id, password |-> password] ELSE NoCall
    /\ cascaded' = NoCascade
    /\ UNCHANGED <<nextUserId, sqlStrict, schemaVars, clientVars>>

suspend(id) == updateStatus(id, "suspended")

\* unsuspend that puts the account back to inactive
unsuspend_Inactive(id) == updateStatus(id, "inactive")

unsuspend(id) == updateStatus(id, "active")

(***************************************************************************)
(* Foreign keys.  Every FOREIGN KEY of db-setup.js is ON DELETE CASCADE:   *)
(* an INSERT whose parent row is missing fails, and a DELETE of a parent   *)
(* row deletes the rows that reference it, transitively.                   *)
(***************************************************************************)
EnrollmentRoles == {"student", "instructor"}

CoursesOfUser(id) == {c \in DOMAIN courses : courses[c].created_by = id}

EnrollmentsOf(userIds, courseIds) ==
    {e \in DOMAIN enrollments :
        enrollments[e].user_id \in userIds \/ enrollments[e].course_id \in courseIds}

PostsOf(userIds, courseIds) ==
    {p \in DOMAIN posts : posts[p].author_id \in userIds \/ posts[p].course_id \in courseIds}

SubmissionsOf(userIds, postIds) ==
    {s \in DOMAIN submissions :
        submissions[s].student_id \in userIds \/ submissions[s].post_id \in postIds}

CascadeDelete(userIds, courseIds) ==
    LET goneCourses == courseIds \cup UNION {CoursesOfUser(u) : u \in userIds}
        gonePosts == PostsOf(userIds, goneCourses)
    IN  /\ courses' = DeleteRows(courses, goneCourses)
        /\ enrollments' = DeleteRows(enrollments, EnrollmentsOf(userIds, goneCourses))
        /\ posts' = DeleteRows(posts, gonePosts)
        /\ submissions' = DeleteRows(submissions, SubmissionsOf(userIds, gonePosts))

Burn(table) == [nextId EXCEPT ![table] = @ + 1]

\* INSERT INTO courses
InsertCourse(created_by) ==
    /\ nextId' = Burn("courses")
    /\ IF created_by \in DOMAIN users
       THEN /\ courses' = InsertRow(courses, nextId.courses, [created_by |-> created_by])
            /\ dbError' = ""
       ELSE /\ dbError' = "ER_NO_REFERENCED_ROW_2"
            /\ UNCHANGED courses
    /\ cascaded' = NoCascade
    /\ UNCHANGED <<users, nextUserId, sqlStrict, hashCall, enrollments, posts, submissions, clientVars>>

\* INSERT INTO posts
InsertPost(course_id, author_id) ==
    /\ nextId' = Burn("posts")
    /\ IF course_id \in DOMAIN courses /\ author_id \in DOMAIN users
       THEN /\ posts' = InsertRow(posts, nextId.posts,
                            [course_id |-> course_id, author_id |-> author_id])
            /\ dbError' = ""
       ELSE /\ dbError' = "ER_NO_REFERENCED_ROW_2"
            /\ UNCHANGED posts
    /\ cascaded' = NoCascade
    /\ UNCHANGED <<users, nextUserId, sqlStrict, hashCall, courses, enrollments, submissions, clientVars>>

\* INSERT INTO submissions
InsertSubmission(post_id, student_id) ==
    /\ nextId' = Burn("submissions")
    /\ IF post_id \in DOMAIN posts /\ student_id \in DOMAIN users
       THEN /\ submissions' = InsertRow(submissions, nextId.submissions,
                                  [post_id |-> post_id, student_id |-> student_id])
            /\ dbError' = ""
       ELSE /\ dbError' = "ER_NO_REFERENCED_ROW_2"
            /\ UNCHANGED submissions
    /\ cascaded' = NoCascade
    /\ UNCHANGED <<users, nextUserId, sqlStrict, hashCall, courses, enrollments, posts, clientVars>>

\* the key uniq_enrollment dropped from the table
UniqEnrollmentHit_KeyDropped(table, user_id, course_id) == FALSE

\* UNIQUE KEY uniq_enrollment (user_id, course_id): whether a new row with
\* this pair collides with a row of table
UniqEnrollmentHit(table, user_id, course_id) ==
    \E e \in DOMAIN table :
        table[e].user_id = user_id /\ table[e].course_id = course_id

\* INSERT INTO enrollments, one row: it fails when a parent row is missing
\* and when the pair (user_id, course_id) is already there.
InsertEnrollment(user_id, course_id, role) ==
    /\ nextId' = Burn("enrollments")
    /\ IF user_id \notin DOMAIN users \/ course_id \notin DOMAIN courses
       THEN /\ dbError' = "ER_NO_REFERENCED_ROW_2"
            /\ UNCHANGED enrollments
       ELSE IF UniqEnrollmentHit(enrollments, user_id, course_id)
       THEN /\ dbError' = "ER_DUP_ENTRY"
            /\ UNCHANGED enrollments
       ELSE /\ enrollments' = InsertRow(enrollments, nextId.enrollments,
                                  [user_id |-> user_id, course_id |-> course_id, role |-> role])
            /\ dbError' = ""
    /\ cascaded' = NoCascade
    /\ UNCHANGED <<users, nextUserId, sqlStrict, hashCall, courses, posts, submissions, clientVars>>

\* INSERT INTO enrollments, several rows in one statement (user_ids is the
\* array of the request, which may name a user twice): a row that fails
\* rolls the whole statement back.
InsertEnrollments(user_ids, course_id, role) ==
    LET n == Len(user_ids)
        RowOk(i) ==
            /\ user_ids[i] \in DOMAIN users
            /\ course_id \in DOMAIN courses
            /\ ~UniqEnrollmentHit(enrollments, user_ids[i], course_id)
            /\ ~UniqEnrollmentHit([j \in 1..(i - 1) |->
                                      [user_id |-> user_ids[j], course_id |-> course_id]],
                                  user_ids[i], course_id)
        NewId(i) == nextId.enrollments + i - 1
    IN  /\ nextId' = [nextId EXCEPT !.enrollments = @ + n]
        /\ IF \A i \in 1..n : RowOk(i)
           THEN /\ enrollments' =
                    [k \in DOMAIN enrollments \cup {NewId(i) : i \in 1..n} |->
                        IF k \in DOMAIN enrollments THEN enrollments[k]
                        ELSE [user_id |-> user_ids[k - nextId.enrollments + 1],
                              course_id |-> course_id, role |-> role]]
                /\ dbError' = ""
           ELSE /\ UNCHANGED enrollments
                /\ dbError' =
                     IF \E i \in 1..n : user_ids[i] \notin DOMAIN users
                            \/ course_id \notin DOMAIN courses
                     THEN "ER_NO_REFERENCED_ROW_2" ELSE "ER_DUP_ENTRY"
        /\ cascaded' = NoCascade
        /\ UNCHANGED <<users, nextUserId, sqlStrict, hashCall, courses, posts, submissions, clientVars>>

\* the number of rows the step takes away from each table
Cascaded ==
    [courses |-> Cardinality(DOMAIN courses \ DOMAIN courses'),
     enrollments |-> Cardinality(DOMAIN enrollments \ DOMAIN enrollments'),
     posts |-> Cardinality(DOMAIN posts \ DOMAIN posts'),
     submissions |-> Cardinality(DOMAIN submissions \ DOMAIN submissions')]

\* DELETE FROM courses WHERE id = ?
DeleteCourse(id) ==
    /\ IF id \in DOMAIN courses
       THEN CascadeDelete({}, {id})
       ELSE UNCHANGED <<courses, enrollments, posts, submissions>>
    /\ dbError' = ""
    /\ cascaded' = Cascaded
    /\ UNCHANGED <<users, nextUserId, sqlStrict, hashCall, nextId, clientVars>>

\* DELETE FROM enrollments WHERE id = ?
DeleteEnrollment(id) ==
    /\ enrollments' = DeleteRows(enrollments, {id})
    /\ dbError' = ""
    /\ cascaded' = NoCascade
    /\ UNCHANGED <<users, nextUserId, sqlStrict, hashCall, nextId, courses, posts, submissions, clientVars>>

\* delete with the rows that reference the user left behind
delete_NoCascade(id) ==
    /\ users' = DeleteRows(users, {id})
    /\ cascaded' = NoCascade
    /\ dbError' = ""
    /\ UNCHANGED <<nextUserId, sqlStrict, schemaVars, hashCall, clientVars>>

\* User.delete: DELETE FROM users WHERE id = ?
delete(id) ==
    /\ users' = DeleteRows(users, {id})
    /\ IF id \in DOMAIN users
       THEN CascadeDelete({id}, {})
       ELSE UNCHANGED <<courses, enrollments, posts, submissions>>
    /\ cascaded' = Cascaded
    /\ dbError' = ""
    /\ UNCHANGED <<nextUserId, sqlStrict, nextId, hashCall, clientVars>>

(***************************************************************************)
(* The seed script of db-setup.js.                                         *)
(***************************************************************************)
SeedUsers ==
    <<[email |-> "admin@uonbi.ac.ke", role |-> "admin", status |-> "active"],
      [email |-> "registrar@strathmore.edu", role |-> "admin", status |-> "active"],
      [email |-> "dr.mwenesi@ku.ac.ke", role |-> "instructor", status |-> "active"],
      [email |-> "prof.kamau@jkuat.ac.ke", role |-> "instructor", status |-> "active"],
      [email |-> "kwame.njoroge@student.com", role |-> "student", status |-> "active"],
      [email |-> "amani.cherono@student.com", role |-> "student", status |-> "active"]>>

\* One INSERT IGNORE of the seeding loop: a duplicate email is skipped (the
\* AUTO_INCREMENT value is consumed all the same); is_first_login is left
\* to its column default, TRUE.
SeedUser(i, salt) ==
    /\ IF EmailTaken(SeedUsers[i].email)
       THEN UNCHANGED users
       ELSE users' = InsertRow(users, nextUserId,
                        UserRow(SeedUsers[i].email,
                                BcryptHash(AdminPassword, salt, SeedRounds),
                                SeedUsers[i].role, SeedUsers[i].status))
    /\ nextUserId' = nextUserId + 1
    /\ dbError' = ""
    /\ cascaded' = NoCascade
    /\ UNCHANGED <<sqlStrict, schemaVars, hashCall, clientVars>>

(***************************************************************************)
(* The client session: AuthService over the browser's cookies, and the     *)
(* server's token handling (sign on login, denylist on logout, denylist    *)
(* check on every authenticated request).                                  *)
(***************************************************************************)
\* highest token the server signs
MaxToken == 2
Tokens == 1..MaxToken

NoCookies == [k \in {} |-> k]

\* what getCurrentUser returns without a user cookie
null == [id |-> 0, role |-> "", is_first_login |-> FALSE]

isAuthenticated == "token" \in DOMAIN cookies

\* a user cookie whose text is not JSON
Unparsable == [id |-> 0, role |-> "{", is_first_login |-> FALSE]

\* The user cookie holds JSON.stringify of the user object of the response;
\* JSON.parse gives the same fields back, and throws on any other text.
getCurrentUser ==
    IF "user" \notin DOMAIN cookies THEN null
    ELSE IF cookies.user = Unparsable THEN null
    ELSE cookies.user

\* role is the set of the roles of the argument (one string or an array)
hasRole(role) ==
    LET user == getCurrentUser
    IN  IF user = null THEN FALSE ELSE user.role \in role

\* the user object the server answers with
UserOf(id) == [id |-> id, role |-> users[id].role,
               is_first_login |-> users[id].is_first_login]

\* the check every authenticated request goes through
TokenAccepted(token) ==
    /\ token \in DOMAIN tokens
    /\ token \notin token_blacklist
    /\ tokens[token] \in DOMAIN users

\* POST /api/auth/logout on the server: the token of the request goes into
\* token_blacklist; a request whose token is already there is refused.
ServerLogout(token) ==
    IF TokenAccepted(token) THEN token_blacklist \cup {token} ELSE token_blacklist

NoResponse == [token |-> 0, status |-> 0]

(***************************************************************************)
(* The route tree of AppRoutes.  A path is its sequence of segments.       *)
(***************************************************************************)
Params == {":courseId", ":postId", ":userId"}

Navigate(to) == [kind |-> "navigate", to |-> to]
Page(name) == [kind |-> "page", page |-> name]
Children == [kind |-> "children"]

ProtectedRouteAll == [component |-> "ProtectedRoute"]
ProtectedRouteFor(allowedRoles) ==
    [component |-> "ProtectedRoute", allowedRoles |-> allowedRoles]
FirstLoginCheckOutlet == [component |-> "FirstLoginCheck"]

Protected == <<ProtectedRouteAll, FirstLoginCheckOutlet>>
StaffOnly == Protected \o <<ProtectedRouteFor({"admin", "instructor"})>>

\* the admin-only group put under the instructors' guard
AdminOnly_StaffGuard == StaffOnly

AdminOnly == Protected \o <<ProtectedRouteFor({"admin"})>>

AppRoutes ==
    <<[path |-> <<"login">>, parents |-> <<>>, element |-> Page("LoginPage")],
      [path |-> <<"register">>, parents |-> <<>>, element |-> Page("RegisterPage")],
      [path |-> <<"first-login">>, parents |-> <<>>, element |-> Page("FirstLoginPage")],
      [path |-> <<"dashboard">>, parents |-> Protected, element |-> Page("DashboardPage")],
      [path |-> <<"courses">>, parents |-> Protected, element |-> Page("CourseListPage")],
      [path |-> <<"courses", ":courseId">>, parents |-> Protected,
       element |-> Page("CourseDetailPage")],
      [path |-> <<"courses", ":courseId", "posts", ":postId">>, parents |-> Protected,
       element |-> Page("PostDetailPage")],
      [path |-> <<"assignments">>, parents |-> Protected,
       element |-> Page("AssignmentListPage")],
      [path |-> <<"courses", "create">>, parents |-> StaffOnly,
       element |-> Page("CreateCoursePage")],
      [path |-> <<"courses", ":courseId", "posts", "create">>, parents |-> StaffOnly,
       element |-> Page("CreatePostPage")],
      [path |-> <<"admin", "users">>, parents |-> AdminOnly,
       element |-> Page("UserManagementPage")],
      [path |-> <<"admin", "users", ":userId", "profile">>, parents |-> AdminOnly,
       element |-> Page("UserProfilePage")],
      [path |-> <<"enrollments">>, parents |-> AdminOnly, element |-> Page("EnrollmentPage")],
      [path |-> <<>>, parents |-> <<>>, element |-> Navigate(<<"dashboard">>)],
      [path |-> <<"*">>, parents |-> <<>>, element |-> Navigate(<<"dashboard">>)]>>

\* the pages of the route group under ProtectedRoute, those of its
\* admin-and-instructor group and those of its admin group
ProtectedPages ==
    {AppRoutes[i].element.page : i \in {j \in DOMAIN AppRoutes : AppRoutes[j].parents # <<>>}}
StaffPages == {"CreateCoursePage", "CreatePostPage"}
AdminPages == {"UserManagementPage", "UserProfilePage", "EnrollmentPage"}

\* Routes picks, among the routes whose path matches the location, the one
\* that ranks highest: a static segment outranks a parameter, the splat
\* ranks last, and the route declared first wins a tie.
Matches(path, pathname) ==
    \/ path = <<"*">>
    \/ /\ Len(path) = Len(pathname)
       /\ \A k \in DOMAIN path : path[k] \in Params \/ path[k] = pathname[k]

Score(path) ==
    IF path = <<"*">> THEN 0
    ELSE 1 + 3 * Len(path) + Cardinality({k \in DOMAIN path : path[k] \notin Params})

MatchRoute(pathname) ==
    LET hits == {i \in DOMAIN AppRoutes : Matches(AppRoutes[i].path, pathname)}
        best == {i \in hits : \A j \in hits : Score(AppRoutes[j].path) <= Score(AppRoutes[i].path)}
    IN  AppRoutes[CHOOSE i \in best : \A j \in best : i <= j]

\* what useAuth() hands to a component: the stored user, whether a session
\* is held, and whether the auth context is still loading
useAuth == [user |-> getCurrentUser, isAuthenticated |-> isAuthenticated,
            isLoading |-> isLoading]

\* ProtectedRoute: a visitor without a session is sent to the login page, a
\* user whose role is not allowed is sent back to the dashboard.
ProtectedRoute(props, auth) ==
    IF ~auth.isAuthenticated THEN Navigate(<<"login">>)
    ELSE IF "allowedRoles" \in DOMAIN props /\ auth.user.role \notin props.allowedRoles
    THEN Navigate(<<"dashboard">>)
    ELSE Children

\* FirstLoginCheck without the redirect
FirstLoginCheck_NoRedirect(pathname, auth) == Children

FirstLoginCheck(pathname, auth) ==
    IF pathname = <<"first-login">> THEN Children
    ELSE IF auth.isLoading THEN Children
    ELSE IF auth.isAuthenticated /\ auth.user.is_first_login
    THEN Navigate(<<"first-login">>)
    ELSE Children

Wrapper(props, pathname, auth) ==
    IF props.component = "ProtectedRoute" THEN ProtectedRoute(props, auth)
    ELSE FirstLoginCheck(pathname, auth)

\* what the route renders: the first Navigate of its parents, from the outside
\* in, or else its own element
RECURSIVE RenderFrom(_, _, _, _)
RenderFrom(route, k, pathname, auth) ==
    IF k > Len(route.parents) THEN route.element
    ELSE LET out == Wrapper(route.parents[k], pathname, auth)
         IN  IF out.kind = "navigate" THEN out
             ELSE RenderFrom(route, k + 1, pathname, auth)

Render(pathname, auth) == RenderFrom(MatchRoute(pathname), 1, pathname, auth)

\* longest chain of Navigate elements followed from one location
MaxRedirects == 4

\* the location and the page on screen once the Navigate elements are followed
RECURSIVE Resolve(_, _, _)
Resolve(pathname, auth, fuel) ==
    LET out == Render(pathname, auth)
    IN  IF out.kind = "navigate"
        THEN IF fuel = 0 THEN [location |-> pathname, page |-> "none"]
             ELSE Resolve(out.to, auth, fuel - 1)
        ELSE [location |-> pathname, page |-> out.page]

\* the browser shows pathname under the session of the next state
Show(pathname) ==
    \E auth \in {useAuth'} :
        \E shown \in {Resolve(pathname, auth, MaxRedirects)} :
            /\ location' = shown.location
            /\ page' = shown.page

(***************************************************************************)
(* The module state of AuthService and the outcome of a service call.      *)
(***************************************************************************)
ME_FETCH_THROTTLE == 30000

\* the clock goes in steps of half the throttle window; Date.now() counts
\* from 1970, so the page is loaded far more than a window after time 0
Tick == ME_FETCH_THROTTLE \div 2
StartTime == ME_FETCH_THROTTLE
\* number of steps of the clock
MaxTicks == 2

\* how a call of a service settles: the promise resolved with a value,
\* rejected with an error, or still pending; requests is the number of HTTP
\* requests the call has issued
Resolved(fn, value, requests) ==
    [fn |-> fn, settled |-> "resolved", value |-> value, error |-> "", requests |-> requests]
Rejected(fn, error, requests) ==
    [fn |-> fn, settled |-> "rejected", value |-> null, error |-> error, requests |-> requests]
Pending(fn, requests) ==
    [fn |-> fn, settled |-> "pending", value |-> null, error |-> "", requests |-> requests]
NoCallYet == Resolved("", null, 0)

\* a full page load starts the scripts afresh: the module state of
\* AuthService is as declared and the requests in flight are dropped
(***************************************************************************)
(* The requests of the client services, by method.                         *)
(***************************************************************************)
Endpoint(service, fn, verb, path) ==
    [service |-> service, fn |-> fn, verb |-> verb, path |-> path]

UserIdParams == {"1", "2", "3", "4", "5", "6"}
CourseIdParams == {"7"}
EnrollmentIdParams == {"1"}

AuthEndpoints ==
    {Endpoint("AuthService", "login", "post", <<"api", "auth", "login">>),
     Endpoint("AuthService", "register", "post", <<"api", "auth", "register">>),
     Endpoint("AuthService", "logout", "post", <<"api", "auth", "logout">>),
     Endpoint("AuthService", "getMe", "get", <<"auth", "me">>),
     Endpoint("AuthService", "changePassword", "post", <<"api", "auth", "change-password">>),
     Endpoint("AuthService", "changePasswordFirstLogin", "post",
              <<"api", "auth", "change-password">>)}

AdminEndpoints ==
    {Endpoint("AdminService", "getAnalytics", "get", <<"api", "admin", "analytics">>),
     Endpoint("AdminService", "assignInstructor", "post", <<"admin", "courses", "assign">>),
     Endpoint("AdminService", "createUser", "post", <<"api", "admin", "users">>),
     Endpoint("AdminService", "getAllUsers", "get", <<"api", "admin", "users">>)}
    \cup {Endpoint("AdminService", "updateUserRole", "patch",
                    <<"api", "admin", "users", userId, "role">>) : userId \in UserIdParams}
    \cup {Endpoint("AdminService", "updateUserStatus", "patch",
                    <<"api", "admin", "users", userId, "status">>) : userId \in UserIdParams}
    \cup {Endpoint("AdminService", "deleteUser", "delete",
                    <<"api", "admin", "users", userId>>) : userId \in UserIdParams}
    \cup {Endpoint("AdminService", "suspendUser", "post",
                    <<"api", "admin", "users", userId, "suspend">>) : userId \in UserIdParams}
    \cup {Endpoint("AdminService", "unsuspendUser", "post",
                    <<"api", "admin", "users", userId, "unsuspend">>) : userId \in UserIdParams}
    \cup {Endpoint("AdminService", "resetPassword", "post",
                    <<"admin", "users", userId, "reset-password">>) : userId \in UserIdParams}
    \cup {Endpoint("AdminService", "getUserProfile", "get",
                    <<"api", "admin", "users", userId, "profile">>) : userId \in UserIdParams}
    \cup {Endpoint("AdminService", "removeEnrollment", "delete",
                    <<"enroll", "admin", enrollmentId>>) : enrollmentId \in EnrollmentIdParams}

EnrollmentEndpoints ==
    {Endpoint("EnrollmentService", "enrollStudent", "post", <<"api", "enroll", "student">>),
     Endpoint("EnrollmentService", "getStudentCourses", "get",
              <<"api", "enroll", "student", "courses">>),
     Endpoint("EnrollmentService", "enrollStudentAsAdmin", "post",
              <<"api", "enroll", "admin", "enroll", "student">>),
     Endpoint("EnrollmentService", "enrollInstructorAsAdmin", "post",
              <<"api", "enroll", "admin", "enroll", "instructor">>),
     Endpoint("EnrollmentService", "enrollUsersBulk", "post",
              <<"api", "enroll", "admin", "enroll", "bulk">>)}
    \cup {Endpoint("EnrollmentService", "checkEnrollment", "get",
                    <<"api", "enroll", "check", courseId>>) : courseId \in CourseIdParams}
    \cup {Endpoint("EnrollmentService", "getAvailableUsers", "get",
                    <<"api", "enroll", "admin", "available-users", courseId>>) :
                courseId \in CourseIdParams}

CourseEndpoints ==
    {Endpoint("CourseService", "getAllCourses", "get", <<"api", "courses">>),
     Endpoint("CourseService", "createCourse", "post", <<"api", "courses", "create">>),
     Endpoint("CourseService", "getInstructorCourses", "get",
              <<"api", "courses", "instructor">>),
     Endpoint("CourseService", "getEnrolledCourses", "get", <<"api", "courses", "enrolled">>)}
    \cup {Endpoint("CourseService", "getCourseById", "get",
                    <<"api", "courses", id>>) : id \in CourseIdParams}
    \cup {Endpoint("CourseService", "getCoursePosts", "get",
                    <<"api", "posts", "course", courseId>>) : courseId \in CourseIdParams}
    \cup {Endpoint("CourseService", "deleteCourse", "delete",
                    <<"courses", courseId>>) : courseId \in CourseIdParams}
    \cup {Endpoint("CourseService", "getEnrolledUsers", "get",
                    <<"api", "courses", courseId, "users">>) : courseId \in CourseIdParams}

Endpoints == AuthEndpoints \cup AdminEndpoints \cup EnrollmentEndpoints \cup CourseEndpoints

\* The baseURL of the axios instance the services share: none, or /api.
BaseURLs == {<<>>, <<"api">>}

NoRequest == [service |-> "", fn |-> "", verb |-> "", url |-> <<>>]

\* a service method sends its request through the axios instance
send(endpoint, baseURL) ==
    /\ requested' = [service |-> endpoint.service, fn |-> endpoint.fn,
                     verb |-> endpoint.verb, url |-> baseURL \o endpoint.path]
    /\ UNCHANGED <<dbVars, cookies, token_blacklist, tokens, isLoading, location, page,
                   loggedOut, lastResponse, authVars, call, logoutTimer, roleChange,
                   dashboard, search>>

(***************************************************************************)
(* UserManagementPage: the filters and the debounced fetchUsers.           *)
(***************************************************************************)
DEBOUNCE == 500
\* the step of the clock of the page, in ms
Step == DEBOUNCE \div 2

\* useState('') of searchQuery, selectedCourse and selectedRole
NoFilters == [searchQuery |-> "", selectedCourse |-> "", selectedRole |-> ""]

\* the page before it is mounted
SearchClosed == [clock |-> 0, mounted |-> FALSE, filters |-> NoFilters, timers |-> {},
                 changes |-> <<>>, fetches |-> <<>>]

\* the values the filters are set to
FilterValues ==
    [searchQuery |-> {"", "a"}, selectedCourse |-> {"", "7"}, selectedRole |-> {"", "student"}]

\* a timer is due: its callback runs before anything else happens
TimerDue == \E t \in search.timers : t.due <= search.clock

\* The page mounts: the first effect calls fetchUsers, the second one sets
\* the timer of the debounce with the fetchUsers of this render.
mountUserManagement ==
    /\ page = "UserManagementPage"
    /\ ~search.mounted
    /\ search' = [search EXCEPT
            !.mounted = TRUE,
            !.filters = NoFilters,
            !.timers = {[due |-> search.clock + DEBOUNCE, filters |-> NoFilters]},
            !.changes = Append(@, [at |-> search.clock, filters |-> NoFilters]),
            !.fetches = Append(@, [at |-> search.clock, filters |-> NoFilters,
                                   from |-> "mount"])]
    /\ UNCHANGED <<dbVars, cookies, token_blacklist, tokens, isLoading, location, page,
                   loggedOut, lastResponse, authVars, call, logoutTimer, roleChange,
                   dashboard, requested>>

\* a change of a filter whose effect sets a timer and clears none
setFilter_NoCleanup(field, value) ==
    /\ page = "UserManagementPage"
    /\ search.mounted
    /\ ~TimerDue
    /\ search.filters[field] # value
    /\ LET filters == [search.filters EXCEPT ![field] = value]
       IN  search' = [search EXCEPT
               !.filters = filters,
               !.timers = @ \cup {[due |-> search.clock + DEBOUNCE, filters |-> filters]},
               !.changes = Append(@, [at |-> search.clock, filters |-> filters])]
    /\ UNCHANGED <<dbVars, cookies, token_blacklist, tokens, isLoading, location, page,
                   loggedOut, lastResponse, authVars, call, logoutTimer, roleChange,
                   dashboard, requested>>

\* searchQuery, selectedCourse or selectedRole changes: the cleanup of the
\* effect of the last render clears its timer, the effect of this render
\* sets a new one with the fetchUsers of this render.
setFilter(field, value) ==
    /\ page = "UserManagementPage"
    /\ search.mounted
    /\ ~TimerDue
    /\ search.filters[field] # value
    /\ LET filters == [search.filters EXCEPT ![field] = value]
       IN  search' = [search EXCEPT
               !.filters = filters,
               !.timers = {[due |-> search.clock + DEBOUNCE, filters |-> filters]},
               !.changes = Append(@, [at |-> search.clock, filters |-> filters])]
    /\ UNCHANGED <<dbVars, cookies, token_blacklist, tokens, isLoading, location, page,
                   loggedOut, lastResponse, authVars, call, logoutTimer, roleChange,
                   dashboard, requested>>

\* the callback of a timer of the debounce runs fetchUsers
debounceFires ==
    /\ \E t \in search.timers :
            /\ t.due <= search.clock
            /\ search' = [search EXCEPT
                    !.timers = @ \ {t},
                    !.fetches = Append(@, [at |-> search.clock, filters |-> t.filters,
                                           from |-> "debounce"])]
    /\ UNCHANGED <<dbVars, cookies, token_blacklist, tokens, isLoading, location, page,
                   loggedOut, lastResponse, authVars, call, logoutTimer, roleChange,
                   dashboard, requested>>

\* time passes on the page, up to the next timer that is due
elapse ==
    /\ ~TimerDue
    /\ search' = [search EXCEPT !.clock = @ + Step]
    /\ UNCHANGED <<dbVars, cookies, token_blacklist, tokens, isLoading, location, page,
                   loggedOut, lastResponse, authVars, call, logoutTimer, roleChange,
                   dashboard, requested>>

\* no run of handleRoleChange yet
NoRoleChange == [userId |-> 0, newRole |-> "", settled |-> "", fetchUsers |-> 0,
                 context |-> "", stored |-> FALSE, timers |-> 0]

\* the empty analytics state and the fallback of a failed fetch
NoAnalytics == [loaded |-> FALSE, total_users |-> 0, total_courses |-> 0,
                total_enrollments |-> 0]
FallbackAnalytics == [loaded |-> TRUE, total_users |-> 0, total_courses |-> 0,
                      total_enrollments |-> 0]

\* DashboardPage as it mounts
DashboardMounted == [isLoading |-> TRUE, errors |-> <<>>, analytics |-> NoAnalytics,
                     recentCourses |-> 0, runs |-> <<>>]

\* What a page load does to the state of the scripts: the module variables
\* of AuthService start over, timers are dropped, components mount anew.
PageLoad ==
    /\ lastMeFetchTime' = 0
    /\ pendingMeRequest' = FALSE
    /\ meInFlight' = <<>>
    /\ logoutTimer' = 0
    /\ dashboard' = DashboardMounted
    /\ search' = [search EXCEPT !.mounted = FALSE, !.timers = {}]
    /\ UNCHANGED <<roleChange, requested>>

\* time passes
tick ==
    /\ now < StartTime + MaxTicks * Tick
    /\ now' = now + Tick
    /\ UNCHANGED <<dbVars, cookies, token_blacklist, tokens, isLoading, location, page,
                   loggedOut, lastResponse, lastMeFetchTime, pendingMeRequest, meInFlight, call,
                   pageVars>>

\* the visitor opens a link or types an address
navigate(pathname) ==
    /\ UNCHANGED <<dbVars, cookies, token_blacklist, tokens, isLoading, loggedOut, lastResponse,
                   authVars, call, pageVars>>
    /\ Show(pathname)

\* the page is loaded anew: the auth context starts loading
reload ==
    /\ isLoading' = TRUE
    /\ PageLoad
    /\ call' = NoCallYet
    /\ UNCHANGED <<dbVars, cookies, token_blacklist, tokens, loggedOut, lastResponse, now>>
    /\ \E pathname \in {location} : Show(pathname)

\* the auth context has finished loading
loaded ==
    /\ isLoading
    /\ isLoading' = FALSE
    /\ UNCHANGED <<dbVars, cookies, token_blacklist, tokens, loggedOut, lastResponse,
                   authVars, call, pageVars>>
    /\ \E pathname \in {location} : Show(pathname)

\* AuthService.login answered by the server with a fresh token and the user;
\* the login page then goes to the dashboard.
login(id) ==
    LET token == Cardinality(DOMAIN tokens) + 1
    IN  /\ id \in DOMAIN users
        /\ tokens' = [t \in DOMAIN tokens \cup {token} |->
                        IF t = token THEN id ELSE tokens[t]]
        /\ cookies' = [k \in {"token", "user"} |->
                        IF k = "token" THEN token ELSE UserOf(id)]
        /\ isLoading' = FALSE
        /\ lastMeFetchTime' = now
        /\ call' = Resolved("login", UserOf(id), 1)
        /\ UNCHANGED <<dbVars, token_blacklist, loggedOut, lastResponse, now, pendingMeRequest,
                       meInFlight, pageVars>>
        /\ Show(<<"dashboard">>)

\* logout with the server call left out when a token is held
logout_GuardInverted(reached) ==
    LET held == isAuthenticated
        token == IF held THEN cookies.token ELSE 0
    IN  /\ token_blacklist' = token_blacklist
        /\ loggedOut' = IF held
                        THEN loggedOut \cup {[token |-> token, failed |-> FALSE]}
                        ELSE loggedOut
        /\ cookies' = NoCookies
        /\ isLoading' = TRUE
        /\ lastResponse' = NoResponse
        /\ PageLoad
        /\ call' = Resolved("logout", null, IF held THEN 1 ELSE 0)
        /\ UNCHANGED <<dbVars, tokens, now>>
        /\ Show(<<"login">>)

\* AuthService.logout.  reached tells whether the request gets to the
\* server; the call fails when it does not and when the server refuses it.
\* a failed login whose catch block clears the session
loginFailed_Clears ==
    /\ call' = Rejected("login", "AxiosError", 1)
    /\ cookies' = NoCookies
    /\ UNCHANGED <<dbVars, token_blacklist, tokens, isLoading, location, page,
                   loggedOut, lastResponse, authVars, pageVars>>

\* login whose post to /api/auth/login fails: the error is logged and thrown
\* again, nothing else is touched
loginFailed ==
    /\ call' = Rejected("login", "AxiosError", 1)
    /\ UNCHANGED <<dbVars, cookies, token_blacklist, tokens, isLoading, location, page,
                   loggedOut, lastResponse, authVars, pageVars>>

\* POST /api/auth/register on the server: the user is created and a token
\* is signed for it
ServerRegister(email, password, salt, role) ==
    /\ InsertUser(email, BcryptHash(password, salt, HashRounds), role, "active")
    /\ hashCall' = IF nextUserId \in DOMAIN users'
                   THEN [id |-> nextUserId, password |-> password]
                   ELSE NoCall
    /\ cascaded' = NoCascade
    /\ UNCHANGED <<sqlStrict, schemaVars>>

\* AuthService.register: the cookies and lastMeFetchTime are written after
\* the awaited post, so a failed post leaves them alone and rejects.
register(email, password, salt, role, reached) ==
    LET token == Cardinality(DOMAIN tokens) + 1
    IN  IF reached
        THEN /\ ServerRegister(email, password, salt, role)
             /\ IF dbError' = ""
                THEN /\ tokens' = [t \in DOMAIN tokens \cup {token} |->
                                     IF t = token THEN nextUserId ELSE tokens[t]]
                     /\ cookies' = [k \in {"token", "user"} |->
                                     IF k = "token" THEN token
                                     ELSE [id |-> nextUserId, role |-> users'[nextUserId].role,
                                           is_first_login |->
                                               users'[nextUserId].is_first_login]]
                     /\ isLoading' = FALSE
                     /\ lastMeFetchTime' = now
                     /\ call' = Resolved("register", cookies'.user, 1)
                     /\ UNCHANGED <<token_blacklist, loggedOut, lastResponse, now,
                                    pendingMeRequest, meInFlight, pageVars>>
                     /\ Show(<<"dashboard">>)
                ELSE /\ call' = Rejected("register", "AxiosError", 1)
                     /\ UNCHANGED <<cookies, token_blacklist, tokens, isLoading, location,
                                    page, loggedOut, lastResponse, authVars, pageVars>>
        ELSE /\ call' = Rejected("register", "AxiosError", 1)
             /\ UNCHANGED <<dbVars, cookies, token_blacklist, tokens, isLoading, location,
                            page, loggedOut, lastResponse, authVars, pageVars>>

\* logout whose finally block removes the token cookie only
logout_KeepsUser(reached) ==
    LET held == isAuthenticated
        token == IF held THEN cookies.token ELSE 0
        failed == held /\ (~reached \/ ~TokenAccepted(token))
    IN  /\ token_blacklist' = IF held /\ reached THEN ServerLogout(token)
                              ELSE token_blacklist
        /\ loggedOut' = IF held
                        THEN loggedOut \cup {[token |-> token, failed |-> failed]}
                        ELSE loggedOut
        /\ cookies' = [k \in DOMAIN cookies \ {"token"} |-> cookies[k]]
        /\ isLoading' = TRUE
        /\ lastResponse' = NoResponse
        /\ PageLoad
        /\ call' = Resolved("logout", null, IF held THEN 1 ELSE 0)
        /\ UNCHANGED <<dbVars, tokens, now>>
        /\ Show(<<"login">>)

logout(reached) ==
    LET held == isAuthenticated
        token == IF held THEN cookies.token ELSE 0
        failed == held /\ (~reached \/ ~TokenAccepted(token))
    IN  /\ token_blacklist' = IF held /\ reached THEN ServerLogout(token)
                              ELSE token_blacklist
        /\ loggedOut' = IF held
                        THEN loggedOut \cup {[token |-> token, failed |-> failed]}
                        ELSE loggedOut
        /\ cookies' = NoCookies
        /\ isLoading' = TRUE
        /\ lastResponse' = NoResponse
        /\ PageLoad
        /\ call' = Resolved("logout", null, IF held THEN 1 ELSE 0)
        /\ UNCHANGED <<dbVars, tokens, now>>
        /\ Show(<<"login">>)

\* a logout request sent again with a token that was kept elsewhere
logoutAgain(token) ==
    /\ token_blacklist' = ServerLogout(token)
    /\ UNCHANGED <<dbVars, cookies, tokens, isLoading, location, page, loggedOut, lastResponse,
                   authVars, call, pageVars>>

\* an authenticated request presenting token, from whoever holds it
request(token) ==
    /\ lastResponse' = [token |-> token,
                        status |-> IF TokenAccepted(token) THEN 200 ELSE 401]
    /\ UNCHANGED <<dbVars, cookies, token_blacklist, tokens, isLoading, location, page,
                   loggedOut, authVars, call, pageVars>>

\* POST /api/auth/change-password from the first-login page: the server
\* stores the new password for the user of the token
changePasswordFirstLogin(password, salt) ==
    /\ isAuthenticated
    /\ TokenAccepted(cookies.token)
    /\ updatePassword(tokens[cookies.token], password, salt)

(***************************************************************************)
(* AuthService.getMe and what changes the cookies behind it.               *)
(***************************************************************************)
SetCookie(name, value) ==
    [k \in DOMAIN cookies \cup {name} |-> IF k = name THEN value ELSE cookies[k]]

\* getMe up to its return, with the check of pendingMeRequest left out
getMe_NoPendingCheck ==
    LET currentUser == getCurrentUser
    IN  /\ IF ~isAuthenticated \/ currentUser = null
           THEN /\ call' = IF getCurrentUser = null
                           THEN Rejected("getMe", "User not authenticated", 0)
                           ELSE Resolved("getMe", getCurrentUser, 0)
                /\ UNCHANGED <<lastMeFetchTime, pendingMeRequest, meInFlight>>
           ELSE IF now - lastMeFetchTime < ME_FETCH_THROTTLE
           THEN /\ call' = Resolved("getMe", currentUser, 0)
                /\ UNCHANGED <<lastMeFetchTime, pendingMeRequest, meInFlight>>
           ELSE /\ lastMeFetchTime' = now
                /\ pendingMeRequest' = TRUE
                /\ meInFlight' = Append(meInFlight, cookies.token)
                /\ call' = Pending("getMe", 1)
        /\ UNCHANGED <<dbVars, cookies, token_blacklist, tokens, isLoading, location, page,
                       loggedOut, lastResponse, now, pageVars>>

\* getMe up to its return, with the throttle left out
getMe_NoThrottle ==
    LET currentUser == getCurrentUser
    IN  /\ IF ~isAuthenticated \/ currentUser = null
           THEN /\ call' = IF getCurrentUser = null
                           THEN Rejected("getMe", "User not authenticated", 0)
                           ELSE Resolved("getMe", getCurrentUser, 0)
                /\ UNCHANGED <<lastMeFetchTime, pendingMeRequest, meInFlight>>
           ELSE IF pendingMeRequest
           THEN /\ call' = Pending("getMe", 0)
                /\ UNCHANGED <<lastMeFetchTime, pendingMeRequest, meInFlight>>
           ELSE /\ lastMeFetchTime' = now
                /\ pendingMeRequest' = TRUE
                /\ meInFlight' = Append(meInFlight, cookies.token)
                /\ call' = Pending("getMe", 1)
        /\ UNCHANGED <<dbVars, cookies, token_blacklist, tokens, isLoading, location, page,
                       loggedOut, lastResponse, now, pageVars>>

\* AuthService.getMe up to its return.  The error thrown for a missing
\* token or user is thrown inside the try block, so the catch block gets it
\* and answers with the stored user when there is one.
getMe ==
    LET currentUser == getCurrentUser
    IN  /\ IF ~isAuthenticated \/ currentUser = null
           THEN /\ call' = IF getCurrentUser = null
                           THEN Rejected("getMe", "User not authenticated", 0)
                           ELSE Resolved("getMe", getCurrentUser, 0)
                /\ UNCHANGED <<lastMeFetchTime, pendingMeRequest, meInFlight>>
           ELSE IF now - lastMeFetchTime < ME_FETCH_THROTTLE
           THEN /\ call' = Resolved("getMe", currentUser, 0)
                /\ UNCHANGED <<lastMeFetchTime, pendingMeRequest, meInFlight>>
           ELSE IF pendingMeRequest
           THEN /\ call' = Pending("getMe", 0)
                /\ UNCHANGED <<lastMeFetchTime, pendingMeRequest, meInFlight>>
           ELSE /\ lastMeFetchTime' = now
                /\ pendingMeRequest' = TRUE
                /\ meInFlight' = Append(meInFlight, cookies.token)
                /\ call' = Pending("getMe", 1)
        /\ UNCHANGED <<dbVars, cookies, token_blacklist, tokens, isLoading, location, page,
                       loggedOut, lastResponse, now, pageVars>>

\* GET /auth/me on the server: the user of the token
MeAnswers(token) == TokenAccepted(token)

Remove(seq, i) == [k \in 1..(Len(seq) - 1) |-> IF k < i THEN seq[k] ELSE seq[k + 1]]

\* The request i of getMe comes back.  The promise getMe returned is the
\* promise of the request (it is returned, not awaited, so the catch block
\* of getMe is out of the way): it resolves with the user of the response,
\* which is also put in the user cookie, or rejects with the error of the
\* request.  Either way pendingMeRequest is cleared.
getMeSettle(i, reached) ==
    /\ i \in DOMAIN meInFlight
    /\ IF reached /\ MeAnswers(meInFlight[i])
       THEN /\ cookies' = SetCookie("user", UserOf(tokens[meInFlight[i]]))
            /\ call' = Resolved("getMe", UserOf(tokens[meInFlight[i]]), 1)
       ELSE /\ call' = Rejected("getMe", "AxiosError", 1)
            /\ UNCHANGED cookies
    /\ pendingMeRequest' = FALSE
    /\ meInFlight' = Remove(meInFlight, i)
    /\ UNCHANGED <<dbVars, token_blacklist, tokens, isLoading, loggedOut, lastResponse, now,
                   lastMeFetchTime, pageVars>>
    /\ \E pathname \in {location} : Show(pathname)

\* the body of AuthService.updateStoredUserRole
StoreUser(user) ==
    /\ cookies' = SetCookie("user", user)
    /\ lastMeFetchTime' = 0

\* AuthService.updateStoredUserRole
updateStoredUserRole(user) ==
    /\ StoreUser(user)
    /\ call' = Resolved("updateStoredUserRole", null, 0)
    /\ UNCHANGED <<dbVars, token_blacklist, tokens, isLoading, loggedOut, lastResponse, now,
                   pendingMeRequest, meInFlight, pageVars>>
    /\ \E pathname \in {location} : Show(pathname)

\* the browser loses a cookie: it expires or the visitor clears it
removeCookie(name) ==
    /\ name \in DOMAIN cookies
    /\ cookies' = [k \in DOMAIN cookies \ {name} |-> cookies[k]]
    /\ UNCHANGED <<dbVars, token_blacklist, tokens, isLoading, location, page, loggedOut,
                   lastResponse, authVars, call, pageVars>>

\* the text of the user cookie is changed into something that is no JSON
corruptUserCookie ==
    /\ "user" \in DOMAIN cookies
    /\ cookies' = SetCookie("user", Unparsable)
    /\ UNCHANGED <<dbVars, token_blacklist, tokens, isLoading, location, page, loggedOut,
                   lastResponse, authVars, call, pageVars>>

(***************************************************************************)
(* UserManagementPage: handleRoleChange.                                   *)
(***************************************************************************)
RoleChange(userId, newRole, settled, fetchUsers, context, stored, timers) ==
    [userId |-> userId, newRole |-> newRole, settled |-> settled, fetchUsers |-> fetchUsers,
     context |-> context, stored |-> stored, timers |-> timers]

\* PATCH /api/admin/users/:userId/role on the server: User.updateRole
ServerUpdateRole(userId, newRole) ==
    /\ UpdateEnum(userId, "role", newRole, Roles)
    /\ cascaded' = NoCascade
    /\ UNCHANGED <<nextUserId, sqlStrict, schemaVars, hashCall>>

\* a change of one's own role that never counts as a demotion
Demoted_Never(currentUser, newRole) == FALSE

\* the admin takes the admin role away from themself
Demoted(currentUser, newRole) == currentUser.role = "admin" /\ newRole # "admin"

\* handleRoleChange of the page, with the request of AdminService.updateUserRole
\* reaching the server or not.  updateUserRole of the auth context is recorded
\* as the role it was called with.
handleRoleChange(userId, newRole, reached) ==
    LET currentUser == useAuth.user
        ok == /\ reached
              /\ isAuthenticated
              /\ TokenAccepted(cookies.token)
              /\ userId \in DOMAIN users
        updatedUser == [id |-> userId, role |-> newRole,
                        is_first_login |-> users[userId].is_first_login]
    IN  /\ page = "UserManagementPage"
        /\ IF ~ok
           THEN /\ call' = Rejected("updateUserRole", "AxiosError", 1)
                /\ roleChange' = RoleChange(userId, newRole, "rejected", 0, "", FALSE, 0)
                /\ UNCHANGED <<dbVars, cookies, lastMeFetchTime, logoutTimer>>
           ELSE /\ ServerUpdateRole(userId, newRole)
                /\ call' = Resolved("updateUserRole", updatedUser, 1)
                /\ IF currentUser # null /\ currentUser.id = userId
                   THEN IF Demoted(currentUser, newRole)
                        THEN /\ logoutTimer' = logoutTimer + 1
                             /\ roleChange' =
                                    RoleChange(userId, newRole, "resolved", 0, "", FALSE, 1)
                             /\ UNCHANGED <<cookies, lastMeFetchTime>>
                        ELSE /\ roleChange' =
                                    RoleChange(userId, newRole, "resolved", 1, newRole, FALSE, 0)
                             /\ UNCHANGED <<cookies, lastMeFetchTime, logoutTimer>>
                   ELSE /\ StoreUser(updatedUser)
                        /\ roleChange' =
                               RoleChange(userId, newRole, "resolved", 1, "", TRUE, 0)
                        /\ UNCHANGED logoutTimer
        /\ UNCHANGED <<token_blacklist, tokens, isLoading, loggedOut, lastResponse, now,
                       pendingMeRequest, meInFlight, dashboard, requested, search>>
        /\ \E pathname \in {location} : Show(pathname)

\* the callback of setTimeout runs AuthService.logout
logoutTimerFires(reached) ==
    /\ logoutTimer > 0
    /\ logout(reached)

(***************************************************************************)
(* DashboardPage: the effect that runs fetchData.                          *)
(***************************************************************************)
\* the service the course fetch of a run goes to, by the hasRole of the render
CourseFetch ==
    IF hasRole({"admin"}) THEN "getAllCourses"
    ELSE IF hasRole({"instructor"}) /\ ~hasRole({"student"}) THEN "getInstructorCourses"
    ELSE "getEnrolledCourses"

CoursePath(fetch) ==
    IF fetch = "getAllCourses" THEN "/api/courses"
    ELSE IF fetch = "getInstructorCourses" THEN "/api/courses/instructor"
    ELSE "/api/courses/enrolled"

\* courses.slice(0, 3), by its length
Slice3(n) == IF n < 3 THEN n ELSE 3

\* a request of the dashboard is answered by the server
Answered(reached) == reached /\ isAuthenticated /\ TokenAccepted(cookies.token)

SetRun(r, run) == [dashboard.runs EXCEPT ![r] = run]

\* fetchData up to its first await
fetchData ==
    /\ page = "DashboardPage"
    /\ dashboard' = [dashboard EXCEPT
            !.isLoading = TRUE,
            !.errors = <<>>,
            !.runs = Append(@, [pc |-> "courses", fetch |-> CourseFetch,
                                admin |-> hasRole({"admin"}),
                                requested |-> {CoursePath(CourseFetch)}])]
    /\ UNCHANGED <<dbVars, cookies, token_blacklist, tokens, isLoading, location, page,
                   loggedOut, lastResponse, authVars, call, logoutTimer, roleChange,
                   requested, search>>

\* The course fetch of run r comes back with n courses or fails.  Only
\* getAllCourses throws; the other two answer a failure with no courses.
\* fetchData goes on to the analytics of an admin or to its finally block.
coursesSettle(r, reached, n) ==
    /\ r \in DOMAIN dashboard.runs
    /\ dashboard.runs[r].pc = "courses"
    /\ LET run == dashboard.runs[r]
           ok == Answered(reached)
           errors == IF ~ok /\ run.fetch = "getAllCourses"
                     THEN Append(dashboard.errors, "Failed to load courses.")
                     ELSE dashboard.errors
           recent == IF ok THEN Slice3(n) ELSE 0
       IN  dashboard' =
              IF run.admin
              THEN [dashboard EXCEPT
                       !.errors = errors,
                       !.recentCourses = recent,
                       !.runs = SetRun(r, [run EXCEPT
                                   !.pc = "analytics",
                                   !.requested = @ \cup {"/api/admin/analytics"}])]
              ELSE [dashboard EXCEPT
                       !.errors = errors,
                       !.recentCourses = recent,
                       !.isLoading = FALSE,
                       !.runs = SetRun(r, [run EXCEPT !.pc = "done"])]
    /\ UNCHANGED <<dbVars, cookies, token_blacklist, tokens, isLoading, location, page,
                   loggedOut, lastResponse, authVars, call, logoutTimer, roleChange,
                   requested, search>>

\* GET /api/admin/analytics on the server: the sizes of the tables
ServerAnalytics ==
    [loaded |-> TRUE, total_users |-> Cardinality(DOMAIN users),
     total_courses |-> Cardinality(DOMAIN courses),
     total_enrollments |-> Cardinality(DOMAIN enrollments)]

\* the analytics fetch with a catch block that leaves the finally block out
analyticsSettle_StillLoading(r, reached) ==
    /\ r \in DOMAIN dashboard.runs
    /\ dashboard.runs[r].pc = "analytics"
    /\ dashboard' =
          IF Answered(reached)
          THEN [dashboard EXCEPT
                   !.analytics = ServerAnalytics,
                   !.isLoading = FALSE,
                   !.runs = SetRun(r, [dashboard.runs[r] EXCEPT !.pc = "done"])]
          ELSE [dashboard EXCEPT
                   !.errors = Append(@, "Failed to load analytics."),
                   !.analytics = FallbackAnalytics,
                   !.runs = SetRun(r, [dashboard.runs[r] EXCEPT !.pc = "done"])]
    /\ UNCHANGED <<dbVars, cookies, token_blacklist, tokens, isLoading, location, page,
                   loggedOut, lastResponse, authVars, call, logoutTimer, roleChange,
                   requested, search>>

\* The analytics fetch of run r comes back or fails, and fetchData ends in
\* its finally block.
analyticsSettle(r, reached) ==
    /\ r \in DOMAIN dashboard.runs
    /\ dashboard.runs[r].pc = "analytics"
    /\ dashboard' =
          IF Answered(reached)
          THEN [dashboard EXCEPT
                   !.analytics = ServerAnalytics,
                   !.isLoading = FALSE,
                   !.runs = SetRun(r, [dashboard.runs[r] EXCEPT !.pc = "done"])]
          ELSE [dashboard EXCEPT
                   !.errors = Append(@, "Failed to load analytics."),
                   !.analytics = FallbackAnalytics,
                   !.isLoading = FALSE,
                   !.runs = SetRun(r, [dashboard.runs[r] EXCEPT !.pc = "done"])]
    /\ UNCHANGED <<dbVars, cookies, token_blacklist, tokens, isLoading, location, page,
                   loggedOut, lastResponse, authVars, call, logoutTimer, roleChange,
                   requested, search>>

(***************************************************************************)
(* The users table under the User model and the seed script.               *)
(***************************************************************************)
EmptyTable == [k \in {} |-> k]

\* a browser without a session, before the application has loaded
InitClient ==
    /\ cookies = NoCookies
    /\ token_blacklist = {}
    /\ tokens = EmptyTable
    /\ isLoading = TRUE
    /\ location = <<"login">>
    /\ page = "LoginPage"
    /\ loggedOut = {}
    /\ lastResponse = NoResponse
    /\ now = StartTime
    /\ lastMeFetchTime = 0
    /\ pendingMeRequest = FALSE
    /\ meInFlight = <<>>
    /\ call = NoCallYet
    /\ logoutTimer = 0
    /\ roleChange = NoRoleChange
    /\ dashboard = DashboardMounted
    /\ requested = NoRequest
    /\ search = SearchClosed

InitSchema ==
    /\ courses = EmptyTable
    /\ enrollments = EmptyTable
    /\ posts = EmptyTable
    /\ submissions = EmptyTable
    /\ nextId = [courses |-> 1, enrollments |-> 1, posts |-> 1, submissions |-> 1]
    /\ dbError = ""
    /\ hashCall = NoCall
    /\ cascaded = NoCascade
    /\ InitClient

InitUsers ==
    /\ users = EmptyTable
    /\ nextUserId = 1
    /\ sqlStrict \in BOOLEAN
    /\ InitSchema

UserIds == 1..MaxUserId

\* the password and salt of the calls that are not about the hash
SomePassword == <<"a">>
SomeSalt == "salt1"

\* the database after the seed script has run on an empty schema
InitSession ==
    /\ users = [i \in DOMAIN SeedUsers |->
                    UserRow(SeedUsers[i].email, BcryptHash(AdminPassword, SomeSalt, SeedRounds),
                            SeedUsers[i].role, SeedUsers[i].status)]
    /\ nextUserId = Len(SeedUsers) + 1
    /\ sqlStrict = TRUE
    /\ InitSchema


NextUsers ==
    \/ \E email \in Emails, role \in Roles \cup {NoArg}, status \in Statuses \cup {NoArg} :
            nextUserId <= MaxUserId /\ create(email, SomePassword, SomeSalt, role, status)
    \/ \E i \in {j \in DOMAIN SeedUsers : SeedUsers[j].email \in Emails} :
            nextUserId <= MaxUserId /\ SeedUser(i, SomeSalt)
    \/ \E id \in UserIds, role \in Roles : updateRole(id, role)
    \/ \E id \in UserIds, status \in Statuses : updateStatus(id, status)
    \/ \E id \in UserIds : updatePassword(id, SomePassword, SomeSalt)
    \/ \E id \in UserIds : suspend(id)
    \/ \E id \in UserIds : unsuspend(id)
    \/ \E id \in UserIds : delete(id)

SpecUsers == InitUsers /\ [][NextUsers]_vars

(***************************************************************************)
(* Properties of the users table.                                          *)
(***************************************************************************)
UsersPasswords == {SomePassword}
UsersSalts == {SomeSalt}

\* C3: every inserted row has is_first_login = TRUE; the flag of a row
\* changes only in a step of updatePassword for that row's id, which sets it
\* to FALSE and leaves the flag of every other row as it was (so updateRole,
\* updateStatus, suspend and unsuspend keep it).
C3_FirstLoginLifecycle ==
    [][/\ \A id \in DOMAIN users' \ DOMAIN users : users'[id].is_first_login
       /\ \A id \in DOMAIN users \cap DOMAIN users' :
            /\ users'[id].is_first_login # users[id].is_first_login
                => \E p \in UsersPasswords, s \in UsersSalts : updatePassword(id, p, s)
            /\ (\E p \in UsersPasswords, s \in UsersSalts : updatePassword(id, p, s))
                => /\ ~users'[id].is_first_login
                   /\ \A other \in DOMAIN users \ {id} :
                         users'[other].is_first_login = users[other].is_first_login
      ]_vars

\* a row whose flag updatePassword has cleared, beside a row that still has it
C3_Witness ==
    \E a, b \in DOMAIN users :
        /\ ~users[a].is_first_login
        /\ users[b].is_first_login
        /\ users[b].role = "admin" /\ users[b].status = "suspended"

\* The inserts into users, with what changes or removes a row in between.
NextEmails ==
    \/ \E email \in Emails, role \in {"admin", NoArg}, status \in {"inactive", NoArg} :
            nextUserId <= MaxUserId /\ create(email, SomePassword, SomeSalt, role, status)
    \/ \E i \in {j \in DOMAIN SeedUsers : SeedUsers[j].email \in Emails} :
            nextUserId <= MaxUserId /\ SeedUser(i, SomeSalt)
    \/ \E id \in UserIds : updatePassword(id, SomePassword, SomeSalt)
    \/ \E id \in UserIds : delete(id)

SpecEmails == InitUsers /\ [][NextEmails]_vars

EmailsUnique ==
    \A a, b \in DOMAIN users : a # b => users[a].email # users[b].email

\* C5: no two rows of users have the same email, and a create or a seed
\* insert with an email that is already there leaves the users table as it
\* was.
C5_EmailUnique ==
    /\ EmailsUnique
    /\ [][/\ EmailsUnique'
           /\ \A email \in Emails :
                (/\ EmailTaken(email)
                 /\ \E role \in Roles \cup {NoArg}, status \in Statuses \cup {NoArg} :
                        create(email, SomePassword, SomeSalt, role, status))
                => users' = users
           /\ \A i \in DOMAIN SeedUsers :
                EmailTaken(SeedUsers[i].email) /\ SeedUser(i, SomeSalt) => users' = users
          ]_vars

\* a create has just failed on the UNIQUE index, two rows being in the table
C5_Witness ==
    /\ dbError = "ER_DUP_ENTRY"
    /\ \E id \in DOMAIN users : ~users[id].is_first_login /\ users[id].status = "inactive"

\* C7: the role of every user is one of student, instructor, admin.
C7_RoleDomain == \A id \in DOMAIN users : users[id].role \in Roles

StatusDomain == \A id \in DOMAIN users : users[id].status \in Statuses

StatusSet(id, status) ==
    /\ users' = [k \in DOMAIN users |->
                    IF k = id THEN [users[k] EXCEPT !.status = status] ELSE users[k]]
    /\ UNCHANGED <<nextUserId, sqlStrict, schemaVars, hashCall>>

PasswordEmails == {"admin@uonbi.ac.ke", "kwame.njoroge@student.com"}

NextPassword ==
    \/ \E email \in PasswordEmails, password \in Passwords, salt \in Salts :
            nextUserId <= MaxUserId /\ create(email, password, salt, "student", NoArg)
    \/ \E id \in UserIds, password \in Passwords, salt \in Salts :
            updatePassword(id, password, salt)

\* sql_mode does not bear on these calls, which pass listed ENUM values: the
\* server runs the strict mode that is MySQL's default
InitPassword == InitUsers /\ sqlStrict

SpecPassword == InitPassword /\ [][NextPassword]_vars

\* bcrypt tells two passwords apart unless both are at least BcryptKeyLen
\* characters long and agree on the first BcryptKeyLen of them
SameKey(p, q) ==
    \/ p = q
    \/ /\ Len(p) >= BcryptKeyLen
       /\ Len(q) >= BcryptKeyLen
       /\ SubSeq(p, 1, BcryptKeyLen) = SubSeq(q, 1, BcryptKeyLen)

HashedRow == hashCall # NoCall /\ hashCall.id \in DOMAIN users

enrollStudent(caller, courseId) == InsertEnrollment(caller, courseId, "student")

\* POST /api/enroll/admin/enroll/student
enrollStudentAsAdmin(userId, courseId) == InsertEnrollment(userId, courseId, "student")

\* POST /api/enroll/admin/enroll/instructor
enrollInstructorAsAdmin(userId, courseId) == InsertEnrollment(userId, courseId, "instructor")

\* POST /api/enroll/admin/enroll/bulk
enrollUsersBulk(courseId, userIds, role) == InsertEnrollments(userIds, courseId, role)

\* DELETE /enroll/admin/:enrollmentId
removeEnrollment(enrollmentId) == DeleteEnrollment(enrollmentId)

\* DELETE /courses/:courseId
deleteCourse(courseId) == DeleteCourse(courseId)

\* POST /api/courses/create, the caller becoming created_by
createCourse(caller) == InsertCourse(caller)

\* the seeded users the requests are about: the first admin, who creates
\* the courses, the first instructor and the first student
Creator == 1
Author == 3
Student == 5

CourseIds == 1..MaxCourseId
EnrollmentIds == 1..MaxEnrollmentId
PostIds == 1..MaxPostId
BulkUserIds == {<<Author>>, <<Author, Student>>, <<Student, Student>>}

NextSchema ==
    \/ \E id \in {Creator, Author, Student} : delete(id)
    \/ nextId.courses <= MaxCourseId /\ createCourse(Creator)
    \/ \E c \in CourseIds : deleteCourse(c)
    \/ \E c \in CourseIds :
            nextId.enrollments <= MaxEnrollmentId /\ enrollStudent(Student, c)
    \/ \E c \in CourseIds :
            nextId.enrollments <= MaxEnrollmentId /\ enrollStudentAsAdmin(Student, c)
    \/ \E u \in {Author, Student}, c \in CourseIds :
            nextId.enrollments <= MaxEnrollmentId /\ enrollInstructorAsAdmin(u, c)
    \/ \E us \in BulkUserIds, c \in CourseIds, role \in EnrollmentRoles :
            /\ nextId.enrollments + Len(us) - 1 <= MaxEnrollmentId
            /\ enrollUsersBulk(c, us, role)
    \/ \E e \in EnrollmentIds : removeEnrollment(e)
    \/ \E c \in CourseIds : nextId.posts <= MaxPostId /\ InsertPost(c, Author)
    \/ \E p \in PostIds :
            nextId.submissions <= MaxSubmissionId /\ InsertSubmission(p, Student)

SpecSchema == InitSession /\ [][NextSchema]_vars

OnePerPair ==
    \A a, b \in DOMAIN enrollments :
        (/\ enrollments[a].user_id = enrollments[b].user_id
         /\ enrollments[a].course_id = enrollments[b].course_id) => a = b

\* C6: there is at most one enrollment row per (user_id, course_id) pair, so
\* no user holds a student and an instructor enrollment in one course.
C6_EnrollmentUnique ==
    /\ OnePerPair
    /\ \A a, b \in DOMAIN enrollments :
            (/\ enrollments[a].user_id = enrollments[b].user_id
             /\ enrollments[a].course_id = enrollments[b].course_id)
            => enrollments[a].role = enrollments[b].role

\* a second request for an enrolled pair has just been refused, the table
\* holding an instructor row
C6_Witness ==
    /\ dbError = "ER_DUP_ENTRY"
    /\ \E e \in DOMAIN enrollments : enrollments[e].role = "instructor"

RefIntegrity ==
    /\ \A c \in DOMAIN courses : courses[c].created_by \in DOMAIN users
    /\ \A e \in DOMAIN enrollments :
            enrollments[e].user_id \in DOMAIN users /\ enrollments[e].course_id \in DOMAIN courses
    /\ \A p \in DOMAIN posts :
            posts[p].course_id \in DOMAIN courses /\ posts[p].author_id \in DOMAIN users
    /\ \A x \in DOMAIN submissions :
            submissions[x].post_id \in DOMAIN posts /\ submissions[x].student_id \in DOMAIN users

\* C9: every course references an existing user, every enrollment an
\* existing user and course, every post an existing course and author, every
\* submission an existing post and student; a user who is deleted takes the
\* courses they created, the enrollments and posts of those courses and the
\* submissions against those posts along.
C9_RefIntegrity == RefIntegrity

\* a DELETE FROM users has just removed the user's course and, with it, an
\* enrollment, a post and a submission
C9_Witness ==
    /\ cascaded.courses = 1
    /\ cascaded.enrollments >= 1
    /\ cascaded.posts = 1
    /\ cascaded.submissions = 1
    /\ Cardinality(DOMAIN users) < Len(SeedUsers)

(***************************************************************************)
(* The browser session against the seeded database.                        *)
(***************************************************************************)
\* the first admin, the first instructor and the first student of the seed
LoginIds == {1, 3, 5}

Urls ==
    {<<>>, <<"login">>, <<"first-login">>, <<"dashboard">>, <<"courses", "7">>,
     <<"courses", "create">>, <<"courses", "7", "posts", "create">>,
     <<"admin", "users">>, <<"enrollments">>, <<"nowhere">>}

\* logging in and out, and the requests that present a token
NextSession ==
    \/ \E id \in LoginIds : Cardinality(DOMAIN tokens) < MaxToken /\ login(id)
    \/ \E reached \in BOOLEAN : logout(reached)
    \/ \E token \in Tokens : logoutAgain(token)
    \/ \E token \in Tokens : request(token)
    \/ loaded

SpecSession == InitSession /\ [][NextSession]_vars

\* moving through the route tree under a session
NextRoutes ==
    \/ \E pathname \in Urls : navigate(pathname)
    \/ reload
    \/ loaded
    \/ \E id \in LoginIds : Cardinality(DOMAIN tokens) < MaxToken /\ login(id)
    \/ logout(TRUE)
    \/ changePasswordFirstLogin(SomePassword, SomeSalt)

SpecRoutes == InitSession /\ [][NextRoutes]_vars

\* the logouts whose call to the server did not fail
Revoked == {l.token : l \in {m \in loggedOut : ~m.failed}}

FirstLoginHeld == isAuthenticated /\ getCurrentUser.is_first_login

\* C2: when the user is authenticated, the stored user's is_first_login is
\* true and the auth context is not loading, no page of the protected route
\* group is on screen: FirstLoginCheck has redirected to /first-login.
C2_FirstLoginGate ==
    (FirstLoginHeld /\ ~isLoading) => page \notin ProtectedPages

\* a first-login user who asked for a protected page is on /first-login
C2_Witness ==
    /\ FirstLoginHeld
    /\ ~isLoading
    /\ location = <<"first-login">>
    /\ page = "FirstLoginPage"

\* C2 as stated: the same while the auth context is loading
C2_Original == FirstLoginHeld => page \notin ProtectedPages

\* C10: an admin page is on screen only when the stored role is admin, a
\* page of the admin-and-instructor group only when it is admin or
\* instructor, and no page of the protected group without a session.
C10_RoleRoutes ==
    /\ page \in AdminPages => hasRole({"admin"})
    /\ page \in StaffPages => hasRole({"admin", "instructor"})
    /\ page \in ProtectedPages => isAuthenticated

\* an instructor is on a page of the admin-and-instructor group, having been
\* kept off the admin pages
C10_Witness ==
    /\ getCurrentUser.role = "instructor"
    /\ page = "CreateCoursePage"
    /\ location = <<"courses", "create">>

(***************************************************************************)
(* The profile fetch of AuthService under a session.                       *)
(***************************************************************************)
\* the admin and the student of the seed log in
ProfileIds == {1, 5}

\* a new address and one the seed holds in another case
RegisterEmails == {"wanjiru.otieno@student.com", "ADMIN@uonbi.ac.ke"}

Register ==
    \E email \in RegisterEmails, reached \in BOOLEAN :
        /\ Cardinality(DOMAIN tokens) < MaxToken
        /\ nextUserId < Len(SeedUsers) + MaxUserId
        /\ register(email, SomePassword, SomeSalt, "student", reached)

\* the profile fetch as time passes
NextProfile ==
    \/ \E id \in ProfileIds : Cardinality(DOMAIN tokens) < MaxToken /\ login(id)
    \/ Register
    \/ getMe
    \/ \E i \in 1..2, reached \in BOOLEAN : getMeSettle(i, reached)
    \/ \E id \in ProfileIds : updateStoredUserRole(UserOf(id))
    \/ tick

SpecProfile == InitSession /\ [][NextProfile]_vars

\* the calls of AuthService under every state of the two cookies
NextCookies ==
    \/ \E id \in ProfileIds : Cardinality(DOMAIN tokens) < MaxToken /\ login(id)
    \/ loginFailed
    \/ Register
    \/ getMe
    \/ \E name \in {"token", "user"} : removeCookie(name)
    \/ corruptUserCookie
    \/ tick

SpecCookies == InitSession /\ [][NextCookies]_vars

Session == isAuthenticated /\ getCurrentUser # null
Throttled == now - lastMeFetchTime < ME_FETCH_THROTTLE

\* C11: at most one /auth/me request of getMe is in flight, and a getMe
\* call made under a session, outside the throttle window, while a request
\* is pending issues none and settles with the pending one.
C11_OneProfileFetch ==
    /\ [](Len(meInFlight) <= 1)
    /\ [][(getMe /\ Session /\ ~Throttled /\ pendingMeRequest)
            => /\ call' = Pending("getMe", 0)
               /\ meInFlight' = meInFlight
               /\ Len(meInFlight) = 1]_vars

\* a getMe call has joined the request in flight after updateStoredUserRole
\* took the throttle away
C11_Witness ==
    /\ call = Pending("getMe", 0)
    /\ Len(meInFlight) = 1
    /\ lastMeFetchTime = 0

\* C12: under a session, a getMe call made less than ME_FETCH_THROTTLE after
\* lastMeFetchTime issues no request and resolves with the stored user;
\* login and a getMe that issues a request set lastMeFetchTime to the time of
\* the call, updateStoredUserRole sets it to 0, and the getMe after that is
\* not throttled.
C12_Throttle ==
    [][/\ (getMe /\ Session /\ Throttled)
            => /\ call' = Resolved("getMe", getCurrentUser, 0)
               /\ UNCHANGED <<meInFlight, lastMeFetchTime, cookies>>
       /\ (getMe /\ call'.requests = 1) => lastMeFetchTime' = now
       /\ (\E id \in ProfileIds : login(id)) => lastMeFetchTime' = now
       /\ (\E email \in RegisterEmails :
                register(email, SomePassword, SomeSalt, "student", TRUE) /\ dbError' = "")
            => lastMeFetchTime' = now
       /\ (\E id \in ProfileIds : updateStoredUserRole(UserOf(id))) => lastMeFetchTime' = 0
       /\ (getMe /\ Session /\ lastMeFetchTime = 0) => call'.settled = "pending"
      ]_vars

\* a getMe call one step of the clock after the fetch was answered from the
\* cookie
C12_Witness ==
    /\ call = Resolved("getMe", getCurrentUser, 0)
    /\ Session
    /\ lastMeFetchTime > 0
    /\ now = lastMeFetchTime + Tick

\* C15: getMe rejects with 'User not authenticated', without a request,
\* whenever the token cookie is missing or the stored user is missing or
\* unparsable.
C15_RejectsWithoutSession ==
    [][(getMe /\ ~Session)
            => call' = Rejected("getMe", "User not authenticated", 0)]_vars

\* C16: when the request of getMe fails, getMe resolves with the stored
\* user if there is one and rejects only if there is none.
C16_FallsBack ==
    [][\A i \in 1..2 :
            (getMeSettle(i, FALSE) \/ (getMeSettle(i, TRUE) /\ ~MeAnswers(meInFlight[i])))
                => IF getCurrentUser # null
                   THEN call' = Resolved("getMe", getCurrentUser, 1)
                   ELSE call'.settled = "rejected"]_vars

\* C14: logout ends with the token cookie and the user cookie removed and
\* the browser at /login, whether the call to /api/auth/logout succeeds,
\* fails or is skipped; the call is made exactly when a token cookie exists
\* as logout is invoked, and the promise of logout resolves.
C14_LogoutAlwaysClears ==
    [][\A reached \in BOOLEAN :
            logout(reached)
                => /\ cookies' = NoCookies
                   /\ location' = <<"login">>
                   /\ call' = Resolved("logout", null,
                                       IF "token" \in DOMAIN cookies THEN 1 ELSE 0)]_vars

\* a logout whose server call failed has cleared the cookies and resolved
C14_Witness ==
    /\ call = Resolved("logout", null, 1)
    /\ \E l \in loggedOut : l.failed
    /\ cookies = NoCookies
    /\ location = <<"login">>

\* C17: a login or register that succeeds sets the token cookie and the
\* user cookie from one response and lastMeFetchTime to the time of the
\* call; one that fails rejects and leaves the token cookie, the user cookie
\* and lastMeFetchTime as they were.
C17_AllOrNothing ==
    [][/\ \A id \in ProfileIds :
            login(id) => /\ DOMAIN cookies' = {"token", "user"}
                         /\ tokens'[cookies'.token] = id
                         /\ cookies'.user.id = id
                         /\ lastMeFetchTime' = now
                         /\ call'.settled = "resolved"
       /\ loginFailed => /\ call'.settled = "rejected"
                         /\ UNCHANGED <<cookies, lastMeFetchTime>>
       /\ \A email \in RegisterEmails, reached \in BOOLEAN :
            register(email, SomePassword, SomeSalt, "student", reached)
                => IF call'.settled = "resolved"
                   THEN /\ DOMAIN cookies' = {"token", "user"}
                        /\ tokens'[cookies'.token] = cookies'.user.id
                        /\ users'[cookies'.user.id].email = email
                        /\ lastMeFetchTime' = now
                   ELSE /\ call'.settled = "rejected"
                        /\ UNCHANGED <<cookies, lastMeFetchTime>>
      ]_vars

\* a login failed under a session that a register opened earlier
C17_Witness ==
    /\ call = Rejected("login", "AxiosError", 1)
    /\ Session
    /\ getCurrentUser.id > Len(SeedUsers)
    /\ lastMeFetchTime > 0
    /\ now > lastMeFetchTime

(***************************************************************************)
(* The user management page under an administrator.                        *)
(***************************************************************************)
MaxTimers == 2

\* the seed after every user has gone through the first login
InitSettled ==
    /\ users = [i \in DOMAIN SeedUsers |->
                    [UserRow(SeedUsers[i].email, BcryptHash(SomePassword, SomeSalt, HashRounds),
                             SeedUsers[i].role, SeedUsers[i].status)
                        EXCEPT !.is_first_login = FALSE]]
    /\ nextUserId = Len(SeedUsers) + 1
    /\ sqlStrict = TRUE
    /\ InitSchema

\* the admin who is logged in, and a student
Admin == 1
RoleChangeIds == {Admin, Student}

NextRoleChange ==
    \/ Cardinality(DOMAIN tokens) < MaxToken /\ login(Admin)
    \/ \E pathname \in {<<"admin", "users">>, <<"dashboard">>} : navigate(pathname)
    \/ \E userId \in RoleChangeIds, newRole \in Roles, reached \in BOOLEAN :
            logoutTimer < MaxTimers /\ handleRoleChange(userId, newRole, reached)
    \/ \E reached \in BOOLEAN : logoutTimerFires(reached)

SpecRoleChange == InitSettled /\ [][NextRoleChange]_vars

\* the event loop runs the callback of a timer that is due
SpecRoleChangeLive ==
    SpecRoleChange /\ WF_vars(\E reached \in BOOLEAN : logoutTimerFires(reached))

\* C18: when the logged-in admin changes the role of another user through
\* handleRoleChange, the stored user of the admin stays as it was, and so
\* do the answers of hasRole.
C18_StoredUserKept ==
    [][\A userId \in RoleChangeIds, newRole \in Roles, reached \in BOOLEAN :
            (handleRoleChange(userId, newRole, reached) /\ Session
                /\ getCurrentUser.id # userId)
                => /\ getCurrentUser' = getCurrentUser
                   /\ \A role \in Roles : hasRole({role})' = hasRole({role})]_vars

\* C19: a successful change of the admin's own role to another role
\* schedules a logout, which eventually happens, and the handler does not
\* fetch the users again; any other successful change of one's own role
\* updates the role of the auth context, schedules no logout and fetches
\* the users; a failed request schedules no logout and stores nothing.
C19_SelfDemotion ==
    /\ [][\A userId \in RoleChangeIds, newRole \in Roles, reached \in BOOLEAN :
            handleRoleChange(userId, newRole, reached)
                => LET self == getCurrentUser # null /\ getCurrentUser.id = userId
                   IN  IF call'.settled = "rejected"
                       THEN /\ UNCHANGED <<logoutTimer, cookies, lastMeFetchTime, users>>
                            /\ roleChange'.context = ""
                            /\ ~roleChange'.stored
                       ELSE IF self /\ getCurrentUser.role = "admin" /\ newRole # "admin"
                       THEN /\ logoutTimer' = logoutTimer + 1
                            /\ roleChange'.fetchUsers = 0
                       ELSE IF self
                       THEN /\ roleChange'.context = newRole
                            /\ roleChange'.fetchUsers = 1
                            /\ UNCHANGED <<logoutTimer, cookies>>
                       ELSE TRUE]_vars
    /\ (logoutTimer > 0) ~> (logoutTimer = 0 /\ call.fn = "logout" /\ cookies = NoCookies)

\* the admin took the admin role away from themself and was logged out by
\* the timer
C19_Witness ==
    /\ roleChange.userId = Admin
    /\ roleChange.timers = 1
    /\ users[Admin].role # "admin"
    /\ call.fn = "logout"
    /\ cookies = NoCookies

(***************************************************************************)
(* The dashboard after a login.                                            *)
(***************************************************************************)
MaxRuns == 2

\* what the server answers the course fetch with: none, or more than three
CourseCounts == {0, 4}

NextDashboard ==
    \/ \E id \in LoginIds : Cardinality(DOMAIN tokens) < MaxToken /\ login(id)
    \/ Len(dashboard.runs) < MaxRuns /\ fetchData
    \/ \E r \in 1..MaxRuns, reached \in BOOLEAN, n \in CourseCounts :
            coursesSettle(r, reached, n)
    \/ \E r \in 1..MaxRuns, reached \in BOOLEAN : analyticsSettle(r, reached)

SpecDashboard == InitSettled /\ [][NextDashboard]_vars

\* every request of the dashboard comes back, with an answer or an error
SpecDashboardLive ==
    /\ SpecDashboard
    /\ WF_vars(\E r \in 1..MaxRuns, reached \in BOOLEAN, n \in CourseCounts :
                    coursesSettle(r, reached, n))
    /\ WF_vars(\E r \in 1..MaxRuns, reached \in BOOLEAN : analyticsSettle(r, reached))

RunDone(r) == r \in DOMAIN dashboard.runs /\ dashboard.runs[r].pc = "done"

\* C20: every run of fetchData comes to its end, and ends with isLoading
\* false, whatever the role and whichever of the two fetches fail; the
\* analytics are requested by the run of an admin only; a failed analytics
\* fetch leaves the all-zero analytics and 'Failed to load analytics.' among
\* the errors.
C20_DashboardLoads ==
    /\ \A r \in 1..MaxRuns :
            (r \in DOMAIN dashboard.runs) ~> (RunDone(r) /\ ~dashboard.isLoading)
    /\ [][\A r \in 1..MaxRuns : (~RunDone(r) /\ RunDone(r)') => ~dashboard'.isLoading]_vars
    /\ []((dashboard.runs # <<>> /\ \A r \in DOMAIN dashboard.runs : RunDone(r))
            => ~dashboard.isLoading)
    /\ [](\A r \in DOMAIN dashboard.runs :
            "/api/admin/analytics" \in dashboard.runs[r].requested => dashboard.runs[r].admin)
    /\ [][\A r \in 1..MaxRuns :
            (analyticsSettle(r, FALSE) \/ (analyticsSettle(r, TRUE) /\ ~Answered(TRUE)))
                => /\ dashboard'.analytics = FallbackAnalytics
                   /\ \E i \in DOMAIN dashboard'.errors :
                            dashboard'.errors[i] = "Failed to load analytics."]_vars

\* the run of an admin lost both fetches and ended
C20_Witness ==
    /\ RunDone(1)
    /\ dashboard.runs[1].admin
    /\ dashboard.errors = <<"Failed to load courses.", "Failed to load analytics.">>
    /\ dashboard.analytics = FallbackAnalytics
    /\ ~dashboard.isLoading

(***************************************************************************)
(* The requests of the services.                                           *)
(***************************************************************************)
NextRequests == \E endpoint \in Endpoints, baseURL \in BaseURLs : send(endpoint, baseURL)

SpecRequests == InitSession /\ [][NextRequests]_vars

DocumentedPrefixes == {"auth", "courses", "enroll", "admin"}

Documented(url) ==
    /\ Len(url) >= 2
    /\ url[1] = "api"
    /\ url[2] \in DocumentedPrefixes

\* C13: every request of AuthService, AdminService, EnrollmentService and
\* CourseService goes to a path under /api/auth, /api/courses, /api/enroll
\* or /api/admin.
C13_DocumentedPaths == requested # NoRequest => Documented(requested.url)

\* C21: when the course fetch of the dashboard fails, whatever the role,
\* 'Failed to load courses.' joins the errors and the recent courses are
\* empty.
C21_CourseFailureReported ==
    [][\A r \in 1..MaxRuns, n \in CourseCounts :
            (coursesSettle(r, FALSE, n) \/ (coursesSettle(r, TRUE, n) /\ ~Answered(TRUE)))
                => /\ dashboard'.recentCourses = 0
                   /\ \E i \in DOMAIN dashboard'.errors :
                            dashboard'.errors[i] = "Failed to load courses."]_vars

(***************************************************************************)
(* The first login: the password change and the profile fetch after it.    *)
(***************************************************************************)
NextFirstLogin ==
    \/ \E id \in ProfileIds : Cardinality(DOMAIN tokens) < MaxToken /\ login(id)
    \/ changePasswordFirstLogin(SomePassword, SomeSalt)
    \/ getMe
    \/ \E i \in 1..2, reached \in BOOLEAN : getMeSettle(i, reached)
    \/ tick

SpecFirstLogin == InitSession /\ [][NextFirstLogin]_vars

\* the user of the session has changed the password of the first login
FirstLoginDone ==
    /\ Session
    /\ TokenAccepted(cookies.token)
    /\ tokens[cookies.token] = getCurrentUser.id
    /\ ~users[getCurrentUser.id].is_first_login

\* C23: once changePasswordFirstLogin has succeeded, a getMe call that
\* resolves gives a user whose is_first_login is false, within the throttle
\* window after the login too.
C23_FreshAfterPasswordChange ==
    [][(getMe /\ FirstLoginDone /\ call'.settled = "resolved")
            => ~call'.value.is_first_login]_vars

(***************************************************************************)
(* The filters of the user management page as time passes.                 *)
(***************************************************************************)
MaxChanges == 3
MaxSteps == 6

NextSearch ==
    \/ cookies = NoCookies /\ login(Admin)
    \/ navigate(<<"admin", "users">>)
    \/ mountUserManagement
    \/ \E field \in DOMAIN FilterValues : \E value \in FilterValues[field] :
            Len(search.changes) < MaxChanges /\ setFilter(field, value)
    \/ debounceFires
    \/ search.clock < MaxSteps * Step /\ elapse

SpecSearch == InitSettled /\ [][NextSearch]_vars

\* the change k ends a burst: no change follows it within the debounce
BurstEnd(k) ==
    \/ k = Len(search.changes)
    \/ search.changes[k + 1].at - search.changes[k].at >= DEBOUNCE

\* the debounced fetches made at a time, and the timers set for it
FetchesAt(time) ==
    {i \in DOMAIN search.fetches :
        search.fetches[i].from = "debounce" /\ search.fetches[i].at = time}
TimersFor(time) == {t \in search.timers : t.due = time}

\* C22: of a burst of changes of the filters less than 500 ms apart comes
\* exactly one fetchUsers, 500 ms after the last change and with the
\* filters of the last change: every debounced fetch is the one of the end
\* of a burst, and every end of a burst has its one fetch or, until it is
\* due, its one timer.
C22_Debounce ==
    /\ \A i \in DOMAIN search.fetches :
            search.fetches[i].from = "debounce"
                => \E k \in DOMAIN search.changes :
                        /\ BurstEnd(k)
                        /\ search.fetches[i].at = search.changes[k].at + DEBOUNCE
                        /\ search.fetches[i].filters = search.changes[k].filters
    /\ \A k \in DOMAIN search.changes :
            LET due == search.changes[k].at + DEBOUNCE
            IN  IF BurstEnd(k)
                THEN /\ Cardinality(FetchesAt(due)) + Cardinality(TimersFor(due)) = 1
                     /\ search.clock > due => Cardinality(FetchesAt(due)) = 1
                ELSE \A time \in {search.changes[k].at + Step * n : n \in 1..(DEBOUNCE \div Step)} :
                        time <= search.changes[k + 1].at => FetchesAt(time) = {}

\* three changes, the first two of them a burst, and the fetch of each of
\* the two bursts made with the filters of its last change
C22_Witness ==
    /\ Len(search.changes) = 3
    /\ search.changes[2].at - search.changes[1].at < DEBOUNCE
    /\ search.changes[2].at > search.changes[1].at
    /\ search.changes[3].at - search.changes[2].at >= DEBOUNCE
    /\ Cardinality({i \in DOMAIN search.fetches : search.fetches[i].from = "debounce"}) = 2
    /\ search.timers = {}

====
